---- MODULE Spec2Model ----
(***************************************************************************)
(* Model of calculate_waiting_times_both_directions (Inverse_Statistic.py) *)
(* as a state machine: one call of the function on a price series `data`   *)
(* and a list `increments`, stepped one loop iteration at a time.  Spec    *)
(* runs calls with a list of increments, SpecSingle calls with at most one *)
(* increment on a longer series.                                           *)
(*                                                                         *)
(* Python indexes are 0-based, TLA+ sequences 1-based: the Python element  *)
(* data[i] is At(data, i) == data[i + 1].  Prices are modelled as small    *)
(* integers (the comparisons and the additions of the source are exact on  *)
(* them).                                                                  *)
(***************************************************************************)
EXTENDS Integers, Sequences, FiniteSets, TLC

\* ---- bounds of the model ----
MaxLen == 4       \* longest series of a call with at most one increment
MaxLenMulti == 3  \* longest series of a call with a list of increments
MaxVal == 2       \* prices are 0..MaxVal
MaxInc == 2       \* largest increment
MaxIncs == 2      \* longest list of increments

\* np.inf, the waiting time of a target never reached (no finite waiting
\* time is negative)
inf == -1

Prices == 0..MaxVal
\* the function accepts any numbers as increments: negative, zero, positive
IncrementValues == (0 - 1)..MaxInc
SeqsUpTo(S, m) == UNION {[1..len -> S] : len \in 0..m}

VARIABLES
    data,                    \* argument: the series
    increments,              \* argument: the list of increments
    results,                 \* the dictionary (increment, direction) -> array
    n,                       \* len(data)
    k,                       \* number of increments the outer for has taken
    i,                       \* index of the running inner loop
    waiting_times_increase,  \* list built by the first inner loop
    waiting_times_decrease,  \* list built by the second inner loop
    pc                       \* position in the function body

vars == <<data, increments, results, n, k, i,
          waiting_times_increase, waiting_times_decrease, pc>>

\* ---- helpers: Python / numpy primitives ----

\* data[i]
At(s, idx) == s[idx + 1]

\* the empty dictionary {}
EmptyDict == [x \in {} |-> <<>>]

\* the tuple used as dictionary key
Key(inc, direction) == <<inc, direction>>

\* slip: the assignment replaces the dictionary instead of adding to it
DictPutReset(d, key, value) == [x \in {key} |-> value]

\* results[key] = value
DictPut(d, key, value) ==
    [x \in (DOMAIN d) \cup {key} |-> IF x = key THEN value ELSE d[x]]

\* np.any(condition)
NpAny(condition) == \E j \in 1..Len(condition) : condition[j]

\* np.argmax(condition) on a boolean array: the 0-based position of the
\* first True, found by a left-to-right scan; 0 when there is none
RECURSIVE ArgmaxFrom(_, _)
ArgmaxFrom(condition, j) ==
    IF j > Len(condition) THEN 0
    ELSE IF condition[j] THEN j - 1
    ELSE ArgmaxFrom(condition, j + 1)

\* slip: the position counted from 1
NpArgmaxOneBased(condition) == ArgmaxFrom(condition, 1) + 1

NpArgmax(condition) == ArgmaxFrom(condition, 1)

\* ---- the two inner loop bodies ----

\* target = data[i] + increment
TargetIncrease(s, idx, inc) == At(s, idx) + inc

\* slip: strict comparison
ConditionIncreaseStrict(s, idx, inc) ==
    [j \in 1..(Len(s) - idx) |-> s[idx + j] > TargetIncrease(s, idx, inc)]

\* slip: equality instead of "at least"
ConditionIncreaseEqual(s, idx, inc) ==
    [j \in 1..(Len(s) - idx) |-> s[idx + j] = TargetIncrease(s, idx, inc)]

\* slip: the scan starts after the start index (data[i + 1:])
ConditionIncreaseFromNext(s, idx, inc) ==
    [j \in 1..(Len(s) - idx - 1) |->
        s[idx + j + 1] >= TargetIncrease(s, idx, inc)]

\* condition = data[i:] >= target   (element j is data[i + j - 1])
ConditionIncrease(s, idx, inc) ==
    [j \in 1..(Len(s) - idx) |-> s[idx + j] >= TargetIncrease(s, idx, inc)]

\* target = data[i] - increment
TargetDecrease(s, idx, inc) == At(s, idx) - inc

\* slip: strict comparison
ConditionDecreaseStrict(s, idx, inc) ==
    [j \in 1..(Len(s) - idx) |-> s[idx + j] < TargetDecrease(s, idx, inc)]

\* condition = data[i:] <= target
ConditionDecrease(s, idx, inc) ==
    [j \in 1..(Len(s) - idx) |-> s[idx + j] <= TargetDecrease(s, idx, inc)]

\* slip: np.argmax without the np.any guard
WaitingTimeNoGuard(condition) == NpArgmax(condition)

\* if np.any(condition): np.argmax(condition) else: np.inf
WaitingTime(condition) ==
    IF NpAny(condition) THEN NpArgmax(condition) ELSE inf

\* ---- the state machine ----

\* the state on entry, after results = {} and n = len(data)
Entry(series, incs) ==
    /\ data = series
    /\ increments = incs
    /\ results = EmptyDict
    /\ n = Len(series)
    /\ k = 0
    /\ i = 0
    /\ waiting_times_increase = <<>>
    /\ waiting_times_decrease = <<>>
    /\ pc = "for_increment"

\* a call with a list of increments
Init ==
    \E series \in SeqsUpTo(Prices, MaxLenMulti) :
        \E incs \in SeqsUpTo(IncrementValues, MaxIncs) :
            Entry(series, incs)

\* a call with at most one increment, on a longer series
InitSingle ==
    \E series \in SeqsUpTo(Prices, MaxLen) :
        \E incs \in SeqsUpTo(IncrementValues, 1) :
            Entry(series, incs)

\* for increment in increments: ... waiting_times_increase = []
NextIncrement ==
    /\ pc = "for_increment"
    /\ k < Len(increments)
    /\ k' = k + 1
    /\ waiting_times_increase' = <<>>
    /\ i' = 0
    /\ pc' = "increase"
    /\ UNCHANGED <<data, increments, results, n, waiting_times_decrease>>

\* one iteration of the first inner loop
IncreaseStep ==
    /\ pc = "increase"
    /\ i < n
    /\ waiting_times_increase' =
           Append(waiting_times_increase,
                  WaitingTime(ConditionIncrease(data, i, increments[k])))
    /\ i' = i + 1
    /\ UNCHANGED <<data, increments, results, n, k, waiting_times_decrease, pc>>

\* results[(increment, "increase")] = np.array(waiting_times_increase)
\* waiting_times_decrease = []
StoreIncrease ==
    /\ pc = "increase"
    /\ i >= n
    /\ results' = DictPut(results, Key(increments[k], "increase"),
                          waiting_times_increase)
    /\ waiting_times_decrease' = <<>>
    /\ i' = 0
    /\ pc' = "decrease"
    /\ UNCHANGED <<data, increments, n, k, waiting_times_increase>>

\* one iteration of the second inner loop
DecreaseStep ==
    /\ pc = "decrease"
    /\ i < n
    /\ waiting_times_decrease' =
           Append(waiting_times_decrease,
                  WaitingTime(ConditionDecrease(data, i, increments[k])))
    /\ i' = i + 1
    /\ UNCHANGED <<data, increments, results, n, k, waiting_times_increase, pc>>

\* results[(increment, "decrease")] = np.array(waiting_times_decrease)
StoreDecrease ==
    /\ pc = "decrease"
    /\ i >= n
    /\ results' = DictPut(results, Key(increments[k], "decrease"),
                          waiting_times_decrease)
    /\ pc' = "for_increment"
    /\ UNCHANGED <<data, increments, n, k, i,
                   waiting_times_increase, waiting_times_decrease>>

\* return results
Return ==
    /\ pc = "for_increment"
    /\ k >= Len(increments)
    /\ pc' = "returned"
    /\ UNCHANGED <<data, increments, results, n, k, i,
                   waiting_times_increase, waiting_times_decrease>>

Next ==
    \/ NextIncrement
    \/ IncreaseStep
    \/ StoreIncrease
    \/ DecreaseStep
    \/ StoreDecrease
    \/ Return

Spec == Init /\ [][Next]_vars

SpecSingle == InitSingle /\ [][Next]_vars

TypeOK ==
    /\ n = Len(data)
    /\ k \in 0..Len(increments)
    /\ i \in 0..n
    /\ pc \in {"for_increment", "increase", "decrease", "returned"}


\* ---- first passage as the specification states it ----

Min(S) == CHOOSE x \in S : \A y \in S : x <= y

\* offsets j > 0, i + j <= n - 1, at which the series has risen by at least t
RisingCrossings(s, idx, t) ==
    {j \in 1..(Len(s) - 1 - idx) : At(s, idx + j) >= At(s, idx) + t}

\* offsets j > 0, i + j <= n - 1, at which the series has fallen by at least t
FallingCrossings(s, idx, t) ==
    {j \in 1..(Len(s) - 1 - idx) : At(s, idx + j) <= At(s, idx) - t}

FirstPassageRising(s, idx, t) ==
    IF RisingCrossings(s, idx, t) = {} THEN inf
    ELSE Min(RisingCrossings(s, idx, t))

FirstPassageFalling(s, idx, t) ==
    IF FallingCrossings(s, idx, t) = {} THEN inf
    ELSE Min(FallingCrossings(s, idx, t))

\* the keys of one direction stored so far, with a positive increment
PositiveKeys(direction) ==
    {key \in DOMAIN results : key[2] = direction /\ key[1] > 0}

\* C1: with a positive threshold t, every Rising result at start index i
\* (stored in the dictionary or already appended to the list being built) is
\* the smallest offset j > 0 with Series[i+j] >= Series[i] + t, and it is
\* Unreachable (inf), never a finite number, when there is no such offset.
C1_RisingFirstPassage ==
    /\ \A key \in PositiveKeys("increase") :
           \A idx \in 0..(Len(results[key]) - 1) :
               At(results[key], idx) = FirstPassageRising(data, idx, key[1])
    /\ (pc = "increase" /\ increments[k] > 0) =>
           \A idx \in 0..(Len(waiting_times_increase) - 1) :
               At(waiting_times_increase, idx)
                   = FirstPassageRising(data, idx, increments[k])

C1_Witness ==
    /\ pc = "returned"
    /\ \E key \in PositiveKeys("increase") :
           /\ Len(results[key]) = n
           /\ \E idx \in 0..(n - 1) : At(results[key], idx) >= 2
           /\ \E idx \in 0..(n - 2) : At(results[key], idx) = inf

\* C2: with a positive threshold t, every Falling result at start index i is
\* the smallest offset j > 0 with Series[i+j] <= Series[i] - t, and it is
\* Unreachable (inf), never a finite number, when there is no such offset.
C2_FallingFirstPassage ==
    /\ \A key \in PositiveKeys("decrease") :
           \A idx \in 0..(Len(results[key]) - 1) :
               At(results[key], idx) = FirstPassageFalling(data, idx, key[1])
    /\ (pc = "decrease" /\ increments[k] > 0) =>
           \A idx \in 0..(Len(waiting_times_decrease) - 1) :
               At(waiting_times_decrease, idx)
                   = FirstPassageFalling(data, idx, increments[k])

C2_Witness ==
    /\ pc = "returned"
    /\ \E key \in PositiveKeys("decrease") :
           /\ Len(results[key]) = n
           /\ \E idx \in 0..(n - 1) : At(results[key], idx) >= 2
           /\ \E idx \in 0..(n - 2) : At(results[key], idx) = inf

\* a threshold <= 0, or the same threshold twice
HasInvalidThreshold(incs) ==
    \/ \E a \in 1..Len(incs) : incs[a] <= 0
    \/ \E a, b \in 1..Len(incs) : a # b /\ incs[a] = incs[b]

\* C3: when the thresholds contain a value <= 0 or a duplicate, the run is
\* rejected before any first-passage query is evaluated: no waiting time is
\* ever computed and no matrix is returned.
C3_InvalidThresholdRejected ==
    HasInvalidThreshold(increments) =>
        /\ waiting_times_increase = <<>>
        /\ waiting_times_decrease = <<>>
        /\ pc # "returned"

\* C4: when the series has length 0 the run fails and returns no matrix.
C4_EmptyInputRejected ==
    n = 0 => pc # "returned"

\* C5: for a series of length n >= 1, every stored result sequence, for
\* every configured threshold and both directions, is Unreachable (inf) at
\* the last start index n - 1.
C5_LastIndexUnreachable ==
    n >= 1 =>
        \A key \in DOMAIN results : At(results[key], n - 1) = inf

\* C6: with a positive threshold t and i + 2 <= n - 1, if Series[i+1] is
\* below Series[i] + t and Series[i+2] equals Series[i] + t, the Rising
\* result at i is 2; a value exactly equal to Series[i] - t counts as a
\* Falling crossing (the Falling result is finite and not later than it, and
\* it is 2 in the symmetric case).
C6_InclusiveCrossing ==
    /\ \A key \in PositiveKeys("increase") :
           \A idx \in 0..(n - 3) :
               (/\ At(data, idx + 1) < At(data, idx) + key[1]
                /\ At(data, idx + 2) = At(data, idx) + key[1])
                   => At(results[key], idx) = 2
    /\ \A key \in PositiveKeys("decrease") :
           /\ \A idx \in 0..(n - 2) :
                  \A j \in 1..(n - 1 - idx) :
                      At(data, idx + j) = At(data, idx) - key[1]
                          => /\ At(results[key], idx) # inf
                             /\ At(results[key], idx) <= j
           /\ \A idx \in 0..(n - 3) :
                  (/\ At(data, idx + 1) > At(data, idx) - key[1]
                   /\ At(data, idx + 2) = At(data, idx) - key[1])
                      => At(results[key], idx) = 2

C6_Witness ==
    /\ pc = "returned"
    /\ \E key \in PositiveKeys("increase") :
           \E idx \in 0..(n - 3) :
               /\ At(data, idx + 1) < At(data, idx) + key[1]
               /\ At(data, idx + 2) = At(data, idx) + key[1]
               /\ At(results[key], idx) = 2
    /\ \E key \in PositiveKeys("decrease") :
           \E idx \in 0..(n - 3) :
               /\ At(data, idx + 1) > At(data, idx) - key[1]
               /\ At(data, idx + 2) = At(data, idx) - key[1]
               /\ At(results[key], idx) = 2

\* C7: for Rising and positive thresholds t1 < t2 of the same run, at every
\* start index either the result for t2 is Unreachable, or both results are
\* finite and the one for t2 is not smaller than the one for t1.
C7_MonotonicTarget ==
    \A k1, k2 \in PositiveKeys("increase") :
        k1[1] < k2[1] =>
            \A idx \in 0..(n - 1) :
                \/ At(results[k2], idx) = inf
                \/ /\ At(results[k1], idx) # inf
                   /\ At(results[k2], idx) >= At(results[k1], idx)

C7_Witness ==
    /\ pc = "returned"
    /\ \E k1, k2 \in PositiveKeys("increase") :
           /\ k1[1] < k2[1]
           /\ \E idx \in 0..(n - 1) :
                  /\ At(results[k1], idx) # inf
                  /\ At(results[k2], idx) > At(results[k1], idx)
           /\ \E idx \in 0..(n - 1) :
                  /\ At(results[k1], idx) # inf
                  /\ At(results[k2], idx) = inf

\* ---- the range-extremum index and the binary search of the specification ----

Max2(a, b) == IF a >= b THEN a ELSE b
Min2(a, b) == IF a <= b THEN a ELSE b

RECURSIVE Pow2(_)
Pow2(e) == IF e = 0 THEN 1 ELSE 2 * Pow2(e - 1)

\* largest e with 2^e <= len  (len >= 1)
RECURSIVE Log2Floor(_)
Log2Floor(len) == IF len <= 1 THEN 0 ELSE 1 + Log2Floor(len \div 2)

\* row `level` of the sparse table: the maximum of every window of length
\* 2^level, built bottom-up from the row of windows of length 1
RECURSIVE MaxRow(_, _)
MaxRow(s, level) ==
    IF level = 0 THEN s
    ELSE LET prev == MaxRow(s, level - 1)
             half == Pow2(level - 1)
         IN  [a \in 1..(Len(s) - Pow2(level) + 1) |->
                 Max2(prev[a], prev[a + half])]

RECURSIVE MinRow(_, _)
MinRow(s, level) ==
    IF level = 0 THEN s
    ELSE LET prev == MinRow(s, level - 1)
             half == Pow2(level - 1)
         IN  [a \in 1..(Len(s) - Pow2(level) + 1) |->
                 Min2(prev[a], prev[a + half])]

\* rangeMax(a, b), 0 <= a <= b < n: two overlapping windows of length 2^level
RangeMax(s, a, b) ==
    LET level == Log2Floor(b - a + 1)
        row == MaxRow(s, level)
    IN  Max2(At(row, a), At(row, b - Pow2(level) + 1))

RangeMin(s, a, b) ==
    LET level == Log2Floor(b - a + 1)
        row == MinRow(s, level)
    IN  Min2(At(row, a), At(row, b - Pow2(level) + 1))

\* does the range [start + 1, m] already contain a qualifying value
Qualifies(s, start, m, target, direction) ==
    IF direction = "increase"
    THEN RangeMax(s, start + 1, m) >= target
    ELSE RangeMin(s, start + 1, m) <= target

\* binary search of the minimal m in [lo, hi] whose range qualifies, knowing
\* that the range up to hi does
RECURSIVE SearchBoundary(_, _, _, _, _, _)
SearchBoundary(s, start, target, direction, lo, hi) ==
    IF lo >= hi THEN lo
    ELSE LET mid == (lo + hi) \div 2
         IN  IF Qualifies(s, start, mid, target, direction)
             THEN SearchBoundary(s, start, target, direction, lo, mid)
             ELSE SearchBoundary(s, start, target, direction, mid + 1, hi)

\* the First-Passage Query Engine: offset m - start, or Unreachable (inf)
FirstPassageQuery(s, start, t, direction) ==
    LET last == Len(s) - 1
        target == IF direction = "increase" THEN At(s, start) + t
                  ELSE At(s, start) - t
    IN  IF start = last THEN inf
        ELSE IF ~Qualifies(s, start, last, target, direction) THEN inf
        ELSE SearchBoundary(s, start, target, direction, start + 1, last)
                 - start

\* C8: for every positive threshold, direction and start index, the binary
\* search over the range-extremum index gives the outcome the forward scan
\* of the source stored: the same offset, or both Unreachable.
C8_BinarySearchEqualsScan ==
    \A key \in PositiveKeys("increase") \cup PositiveKeys("decrease") :
        \A idx \in 0..(Len(results[key]) - 1) :
            At(results[key], idx)
                = FirstPassageQuery(data, idx, key[1], key[2])

C8_Witness ==
    /\ pc = "returned"
    /\ n >= 4
    /\ \E key \in PositiveKeys("increase") :
           /\ At(results[key], 0) = FirstPassageQuery(data, 0, key[1], key[2])
           /\ At(results[key], 0) = 3
    /\ \E key \in PositiveKeys("decrease") :
           /\ At(results[key], 0) = FirstPassageQuery(data, 0, key[1], key[2])
           /\ At(results[key], 0) = 2
           /\ \E idx \in 1..(n - 2) :
                  /\ At(results[key], idx) = inf
                  /\ FirstPassageQuery(data, idx, key[1], key[2]) = inf

\* the increments of a valid configuration: non-empty, distinct, positive
ValidIncrements(incs) == Len(incs) >= 1 /\ ~HasInvalidThreshold(incs)

\* C9: for a non-empty list of distinct positive thresholds the returned
\* matrix has exactly the keys (threshold, direction), direction in
\* {increase, decrease}, and each entry is a sequence of exactly n results
\* whose k-th element is the first-passage result of start index k.
C9_MatrixComplete ==
    (pc = "returned" /\ ValidIncrements(increments)) =>
        /\ DOMAIN results =
               {<<increments[a], d>> :
                    a \in 1..Len(increments), d \in {"increase", "decrease"}}
        /\ \A key \in DOMAIN results :
               /\ Len(results[key]) = n
               /\ \A idx \in 0..(n - 1) :
                      At(results[key], idx) =
                          IF key[2] = "increase"
                          THEN FirstPassageRising(data, idx, key[1])
                          ELSE FirstPassageFalling(data, idx, key[1])

C9_Witness ==
    /\ pc = "returned"
    /\ ValidIncrements(increments)
    /\ Len(increments) = 2
    /\ n >= 3
    /\ Cardinality(DOMAIN results) = 4
    /\ \E key \in DOMAIN results : At(results[key], 0) # At(results[key], 1)

\* a waiting time the scan from data[i:] may give at start index idx for
\* the increment inc: with inc > 0 it is inf or lies in 1..n-1-idx (never 0);
\* with inc <= 0 it is 0
ScanFromStartValue(w, idx, inc) ==
    IF inc > 0 THEN w = inf \/ w \in 1..(n - 1 - idx)
    ELSE w = 0

\* C11: each scan starts at the start index itself, so with a positive
\* increment a finite waiting time is never 0 (it lies in 1..n-1-i), and with
\* an increment <= 0 the waiting time is 0 at every start index, in both
\* directions, for the stored arrays and for the lists being built.
C11_ScanFromStartIndex ==
    /\ \A key \in DOMAIN results :
           \A idx \in 0..(Len(results[key]) - 1) :
               ScanFromStartValue(At(results[key], idx), idx, key[1])
    /\ pc = "increase" =>
           \A idx \in 0..(Len(waiting_times_increase) - 1) :
               ScanFromStartValue(At(waiting_times_increase, idx), idx,
                                  increments[k])
    /\ pc = "decrease" =>
           \A idx \in 0..(Len(waiting_times_decrease) - 1) :
               ScanFromStartValue(At(waiting_times_decrease, idx), idx,
                                  increments[k])

C11_Witness ==
    /\ pc = "returned"
    /\ n >= 3
    /\ \E inc \in {increments[a] : a \in 1..Len(increments)} :
           /\ inc <= 0
           /\ \A d \in {"increase", "decrease"} :
                  /\ <<inc, d>> \in DOMAIN results
                  /\ Len(results[<<inc, d>>]) = n
                  /\ \A idx \in 0..(n - 1) : At(results[<<inc, d>>], idx) = 0
    /\ \E key \in DOMAIN results :
           /\ key[1] > 0
           /\ \E idx \in 0..(n - 1) : At(results[key], idx) = n - 1 - idx
           /\ \E idx \in 0..(n - 1) : At(results[key], idx) = 1

====
